---- MODULE Spec2Model ----
(***************************************************************************)
(* Model of the frontend domain entities Record and Metadata               *)
(* (frontend/v1/domain/entities/metadata/Metadata.ts) and of the           *)
(* SettingsFields form.                                                    *)
(*                                                                         *)
(* JavaScript values are represented as follows: the object-typed slots    *)
(* (answer, original, suggestion, suggestions) hold a record, and the      *)
(* values undefined and null are the records UNDEFINED and NULL; the       *)
(* string-typed slots (status, updatedAt, a question's answer value) hold  *)
(* a string, and a missing string is NoValue.                              *)
(***************************************************************************)
EXTENDS Integers, Sequences, FiniteSets, TLC

\* Number of questions of the record.
MaxQuestions == 2

UNDEFINED == [kind |-> "undefined"]
NULL == [kind |-> "null"]
NoValue == "undefined"

Nullish(v) == v = UNDEFINED \/ v = NULL

DEFAULT_STATUS == "pending"

-----------------------------------------------------------------------------
(* The values the record is built from.                                    *)

QuestionIds == 1..MaxQuestions
QuestionName(i) == <<"name", i>>
QuestionNames == {QuestionName(i) : i \in QuestionIds}

AnswerValues == {NoValue, "a", "b"}

\* RecordStatus, and a status field that is missing.
StatusValues == {"pending", "submitted", "discarded", "draft", NoValue}

\* The value of a RecordAnswer, keyed by question name.
NoneAnswered == [n \in QuestionNames |-> NoValue]
FirstAnswered ==
  [n \in QuestionNames |-> IF n = QuestionName(1) THEN "a" ELSE NoValue]
AllAnswered == [n \in QuestionNames |-> "b"]

\* The value and the updatedAt of the answers a caller passes.
AnswerContents ==
  { <<NoneAnswered, "t1">>, <<FirstAnswered, "t1">>,
    <<FirstAnswered, "t2">>, <<AllAnswered, "t2">> }

\* RecordAnswer: status, value, updatedAt.
RecordAnswers ==
  { [kind |-> "answer", status |-> st, value |-> c[1], updatedAt |-> c[2]] :
      st \in StatusValues, c \in AnswerContents }

\* What a caller can pass as the answer: a RecordAnswer, null or undefined.
AnswerArgs == RecordAnswers \cup {NULL, UNDEFINED}

Suggestion(id, v) == [kind |-> "suggestion", questionId |-> id, value |-> v]

Array(items) == [kind |-> "array", items |-> items]

\* What a caller can pass as the suggestions: null, no suggestion, one for a
\* question of the record, one for no question of the record, two for the
\* same question, and one for the last question behind one that matches none.
SuggestionArgs ==
  { NULL,
    Array(<<>>),
    Array(<<Suggestion(1, "s1")>>),
    Array(<<Suggestion(0, "s1")>>),
    Array(<<Suggestion(1, "s1"), Suggestion(1, "s2")>>),
    Array(<<Suggestion(0, "s1"), Suggestion(MaxQuestions, "s2")>>) }

\* A question as the record receives it: no answer and no suggestion yet.
NewQuestion(i) ==
  [id |-> i, name |-> QuestionName(i), answer |-> NoValue, suggestion |-> UNDEFINED]

NewQuestions == [i \in QuestionIds |-> NewQuestion(i)]

-----------------------------------------------------------------------------
(* Question: the methods the record calls on its questions.                *)

Call(method, value, suggestion) ==
  [method |-> method, value |-> value, suggestion |-> suggestion]

\* The effect of one call on a question.
ApplyCall(q, c) ==
  CASE c.method = "complete" -> [q EXCEPT !.answer = c.value]
    [] c.method = "forceComplete" -> [q EXCEPT !.answer = c.value]
    [] c.method = "suggests" -> [q EXCEPT !.suggestion = c.suggestion]
    [] c.method = "clearAnswer" -> [q EXCEPT !.answer = NoValue]

RECURSIVE ApplyCalls(_, _)
ApplyCalls(q, cs) ==
  IF cs = <<>> THEN q ELSE ApplyCalls(ApplyCall(q, Head(cs)), Tail(cs))

-----------------------------------------------------------------------------
(* lodash                                                                  *)

\* isEqual comparing identities: a snapshot and the object it is compared
\* with are two objects.
isEqualByIdentity(a, b) == FALSE

\* isEqual: deep comparison by value.
isEqual(a, b) == a = b

\* A copy one level deep, { ...v }: it has its own properties and shares the
\* questions array, and the Question objects in it, with its argument.
cloneSharingQuestions(v) ==
  [f \in (DOMAIN v) \cup {"shares"} |->
     IF f = "shares" THEN {"questions"} ELSE v[f]]

\* cloneDeep: a copy that shares nothing with its argument; values of the
\* model are immutable, so the copy is the value.
cloneDeep(v) == v

\* What reading the copy o gives while r is the object it was copied from:
\* a property the copy shares with r is read from r.
Resolve(o, r) ==
  IF Nullish(o) THEN o
  ELSE [f \in (DOMAIN o) \ {"shares"} |->
          IF "shares" \in DOMAIN o /\ f \in o.shares THEN r[f] ELSE o[f]]

\* Array.prototype.find with the test (s) => s.questionId === id: the first
\* such element, or undefined.
\* The last element with that questionId, or undefined.
RECURSIVE findLast(_, _)
findLast(items, id) ==
  IF items = <<>> THEN UNDEFINED
  ELSE IF items[Len(items)].questionId = id THEN items[Len(items)]
  ELSE findLast(SubSeq(items, 1, Len(items) - 1), id)

RECURSIVE find(_, _)
find(items, id) ==
  IF items = <<>> THEN UNDEFINED
  ELSE IF Head(items).questionId = id THEN Head(items)
  ELSE find(Tail(items), id)

-----------------------------------------------------------------------------
(* Record                                                                  *)

VARIABLES
  questions,    \* this.questions
  answer,       \* this.answer
  suggestions,  \* this.suggestions
  updatedAt,    \* this.updatedAt
  original,     \* this.original
  lastOp,       \* the operation that produced this state
  lastArg,      \* the answer argument of that operation
  threw,        \* whether that operation ended in a TypeError
  calls,        \* per question, the calls that operation made on it
  snap          \* the record's state at the end of its last initialize()

recordVars ==
  <<questions, answer, suggestions, updatedAt, original,
    lastOp, lastArg, threw, calls, snap>>

VARIABLES
  rules,       \* Question: which answers its getters accept
  readOp,      \* the getter or method of the record read last
  readResult   \* what it returned

readVars == <<rules, readOp, readResult>>

VARIABLES
  settings,        \* Metadata: this.settings
  hasValuesRead,   \* whether hasValues has been read
  hasValuesResult  \* what it returned

metadataVars == <<settings, hasValuesRead, hasValuesResult>>

VARIABLES
  fields,     \* SettingsFields: settings.fields
  formOp      \* the last event of the form

formVars == <<fields, formOp>>

VARIABLES
  build,   \* the run of the job build of "Build Argilla Docker image"
  deploy   \* the run of the job deploy of "Deploy Argilla environment"

workflowVars == <<build, deploy>>

vars == <<recordVars, readVars, metadataVars, formVars, workflowVars>>

\* The record object: its own enumerable properties.
This ==
  [id |-> "record-1", datasetId |-> "dataset-1", questions |-> questions,
   fields |-> <<>>, answer |-> answer, suggestions |-> suggestions,
   page |-> 1, updatedAt |-> updatedAt, original |-> original]

\* const { original, ...rest } = this
Rest(r) == [f \in (DOMAIN r) \ {"original"} |-> r[f]]

\* status without the ?? DEFAULT_STATUS fallback.
statusWithoutDefault(r) ==
  IF Nullish(r.answer) THEN NoValue ELSE r.answer.status

\* get status: this.answer?.status ?? DEFAULT_STATUS
status(r) ==
  IF Nullish(r.answer) THEN DEFAULT_STATUS
  ELSE IF r.answer.status = NoValue THEN DEFAULT_STATUS
  ELSE r.answer.status

isPending(r) == status(r) = DEFAULT_STATUS

isSubmitted(r) == status(r) = "submitted"

isDiscarded(r) == status(r) = "discarded"

\* isDraft comparing with a misspelt status.
isDraftMisspelt(r) == status(r) = "drafted"

isDraft(r) == status(r) = "draft"

\* isModified without the !!original guard.
isModifiedUnguarded(r) ==
  LET rest == Rest(r)
  IN  ~isEqual(r.original, rest)

\* isModified comparing the answers only.
isModifiedAnswerOnly(r) ==
  LET rest == Rest(r)
  IN  ~Nullish(r.original) /\ ~isEqual(r.original.answer, rest.answer)

\* get isModified
isModified(r) ==
  LET rest == Rest(r)
  IN  ~Nullish(r.original) /\ ~isEqual(r.original, rest)

\* this.answer?.value[question.name]
answerForQuestion(r, q) ==
  IF Nullish(r.answer) THEN NoValue ELSE r.answer.value[q.name]

\* this.suggestions?.find((s) => s.questionId === question.id)
suggestionFor(r, q) ==
  IF Nullish(r.suggestions) THEN UNDEFINED
  ELSE find(r.suggestions.items, q.id)

\* completeQuestion suggesting whatever the status.
completeQuestionCallsAlwaysSuggesting(r, q) ==
  << Call("complete", answerForQuestion(r, q), UNDEFINED),
     Call("suggests", NoValue, suggestionFor(r, q)) >>

\* The calls completeQuestion makes on one question.
completeQuestionCalls(r, q) ==
  IF isPending(r) \/ isDraft(r)
  THEN << Call("complete", answerForQuestion(r, q), UNDEFINED),
          Call("suggests", NoValue, suggestionFor(r, q)) >>
  ELSE << Call("forceComplete", answerForQuestion(r, q), UNDEFINED) >>

\* private completeQuestion()
completeQuestion(r) ==
  [r EXCEPT !.questions =
     [i \in DOMAIN r.questions |->
        ApplyCalls(r.questions[i], completeQuestionCalls(r, r.questions[i]))]]

\* initialize() that completes the questions and keeps the old snapshot.
initializeKeepingSnapshot(r) == completeQuestion(r)

\* initialize() that takes the snapshot before it completes the questions.
initializeSnapshotFirst(r) ==
  LET rest == Rest(r)
  IN  [completeQuestion(r) EXCEPT !.original = cloneDeep(rest)]

\* initialize()
initialize(r) ==
  LET completed == completeQuestion(r)
      rest == Rest(completed)
  IN  [completed EXCEPT !.original = cloneDeep(rest)]

\* submit(answer) that leaves updatedAt alone.
submitKeepingUpdatedAt(r, a) ==
  IF Nullish(a) THEN [r EXCEPT !.answer = a]
  ELSE initialize([r EXCEPT !.answer = a])

\* submit(answer); answer.updatedAt throws a TypeError on null or undefined,
\* after this.answer has been assigned.
submit(r, a) ==
  IF Nullish(a) THEN [r EXCEPT !.answer = a]
  ELSE initialize([r EXCEPT !.answer = a, !.updatedAt = a.updatedAt])

\* discard(answer) that stores the answer with the status discarded.
discardMarkingDiscarded(r, a) ==
  IF Nullish(a) THEN [r EXCEPT !.answer = a]
  ELSE initialize([r EXCEPT !.answer = [a EXCEPT !.status = "discarded"],
                            !.updatedAt = a.updatedAt])

\* discard(answer)
discard(r, a) ==
  IF Nullish(a) THEN [r EXCEPT !.answer = a]
  ELSE initialize([r EXCEPT !.answer = a, !.updatedAt = a.updatedAt])

\* The calls clear() makes on one question before it re-initializes.
clearCalls(q) == << Call("clearAnswer", NoValue, UNDEFINED) >>

\* clear() that keeps the answer.
clearKeepingAnswer(r) ==
  LET cleared ==
        [r EXCEPT !.questions =
           [i \in DOMAIN r.questions |->
              ApplyCalls(r.questions[i], clearCalls(r.questions[i]))]]
  IN  initialize(cleared)

\* clear()
clear(r) ==
  LET cleared ==
        [r EXCEPT !.questions =
           [i \in DOMAIN r.questions |->
              ApplyCalls(r.questions[i], clearCalls(r.questions[i]))]]
  IN  initialize([cleared EXCEPT !.answer = NULL])

\* The object the constructor starts from: its parameter properties.
newRecord(qs, a, s) ==
  [id |-> "record-1", datasetId |-> "dataset-1", questions |-> qs,
   fields |-> <<>>, answer |-> a, suggestions |-> s,
   page |-> 1, updatedAt |-> NoValue, original |-> UNDEFINED]

\* A constructor that calls initialize() and so takes a snapshot.
constructInitializing(qs, a, s) ==
  LET initialized == initialize(newRecord(qs, a, s))
  IN  [initialized EXCEPT
         !.updatedAt = IF Nullish(a) THEN NoValue ELSE a.updatedAt]

\* constructor(id, datasetId, questions, fields, answer, suggestions, page)
construct(qs, a, s) ==
  LET completed == completeQuestion(newRecord(qs, a, s))
  IN  [completed EXCEPT
         !.updatedAt = IF Nullish(a) THEN NoValue ELSE a.updatedAt]

\* The record becomes r.
Becomes(r) ==
  /\ questions' = r.questions
  /\ answer' = r.answer
  /\ suggestions' = r.suggestions
  /\ updatedAt' = r.updatedAt
  /\ original' = r.original

\* The calls made on each question by completeQuestion in state r.
CompletionCalls(r) ==
  [i \in DOMAIN r.questions |-> completeQuestionCalls(r, r.questions[i])]

\* Nothing has been read from the record; its questions accept every answer.
ReadIdle ==
  /\ rules = [isAnswered |-> {"a", "b"}, hasValidValues |-> {NoValue, "a", "b"},
              isValid |-> {"a", "b"}, isPartiallyValid |-> {}]
  /\ readOp = "none"
  /\ readResult = FALSE

\* new Record(id, datasetId, questions, fields, a, s, page)
InitRecord ==
  \E a \in AnswerArgs, s \in SuggestionArgs :
    LET r == construct(NewQuestions, a, s)
    IN  /\ questions = r.questions
        /\ answer = r.answer
        /\ suggestions = r.suggestions
        /\ updatedAt = r.updatedAt
        /\ original = r.original
        /\ lastOp = "construct"
        /\ lastArg = a
        /\ threw = FALSE
        /\ calls = CompletionCalls(newRecord(NewQuestions, a, s))
        /\ snap = UNDEFINED
        /\ ReadIdle

\* No Metadata is under study.
MetadataIdle ==
  /\ settings = [type |-> "terms", values |-> UNDEFINED,
                 min |-> UNDEFINED, max |-> UNDEFINED]
  /\ hasValuesRead = FALSE
  /\ hasValuesResult = FALSE

\* No form is under study.
FormIdle ==
  /\ fields = <<>>
  /\ formOp = "mounted"

\* A job that has not been given its inputs.
NoRun ==
  [inputs |-> <<>>, step |-> 0, outcome |-> <<>>, status |-> "idle",
   outputs |-> <<>>, effects |-> <<>>]

\* No workflow is under study.
WorkflowIdle ==
  /\ build = NoRun
  /\ deploy = NoRun

\* No Record is under study.
RecordIdle ==
  LET r == construct(NewQuestions, NULL, NULL)
  IN  /\ questions = r.questions
      /\ answer = r.answer
      /\ suggestions = r.suggestions
      /\ updatedAt = r.updatedAt
      /\ original = r.original
      /\ lastOp = "construct"
      /\ lastArg = NULL
      /\ threw = FALSE
      /\ calls = CompletionCalls(newRecord(NewQuestions, NULL, NULL))
      /\ snap = UNDEFINED
      /\ ReadIdle

\* record.submit(a)
Submit ==
  \E a \in AnswerArgs :
    LET r == submit(This, a)
    IN  /\ Becomes(r)
        /\ lastOp' = "submit"
        /\ lastArg' = a
        /\ threw' = Nullish(a)
        /\ calls' = IF Nullish(a) THEN [i \in QuestionIds |-> <<>>]
                    ELSE CompletionCalls([This EXCEPT !.answer = a])
        /\ snap' = IF Nullish(a) THEN snap ELSE Rest(r)
        /\ UNCHANGED <<readVars, metadataVars, formVars, workflowVars>>

\* record.discard(a)
Discard ==
  \E a \in AnswerArgs :
    LET r == discard(This, a)
    IN  /\ Becomes(r)
        /\ lastOp' = "discard"
        /\ lastArg' = a
        /\ threw' = Nullish(a)
        /\ calls' = IF Nullish(a) THEN [i \in QuestionIds |-> <<>>]
                    ELSE CompletionCalls([This EXCEPT !.answer = a])
        /\ snap' = IF Nullish(a) THEN snap ELSE Rest(r)
        /\ UNCHANGED <<readVars, metadataVars, formVars, workflowVars>>

\* record.clear()
Clear ==
  LET r == clear(This)
  IN  /\ Becomes(r)
      /\ lastOp' = "clear"
      /\ lastArg' = UNDEFINED
      /\ threw' = FALSE
      /\ calls' = [i \in QuestionIds |->
                     clearCalls(questions[i])
                       \o completeQuestionCalls([This EXCEPT !.answer = NULL],
                                                questions[i])]
      /\ snap' = Rest(r)
      /\ UNCHANGED <<readVars, metadataVars, formVars, workflowVars>>

\* record.initialize(), as the questions form calls it
Initialize ==
  LET r == initialize(This)
  IN  /\ Becomes(r)
      /\ lastOp' = "initialize"
      /\ lastArg' = UNDEFINED
      /\ threw' = FALSE
      /\ calls' = CompletionCalls(This)
      /\ snap' = Rest(r)
      /\ UNCHANGED <<readVars, metadataVars, formVars, workflowVars>>

\* The annotator changes the answer of question i to another value.
EditQuestion ==
  \E i \in QuestionIds, v \in AnswerValues :
    /\ v # questions[i].answer
    /\ questions' = [questions EXCEPT ![i].answer = v]
    /\ lastOp' = "edit"
    /\ lastArg' = UNDEFINED
    /\ threw' = FALSE
    /\ calls' = [j \in QuestionIds |-> <<>>]
    /\ UNCHANGED <<answer, suggestions, updatedAt, original, snap>>
    /\ UNCHANGED <<readVars, metadataVars, formVars, workflowVars>>

Next ==
  \/ Submit
  \/ Discard
  \/ Clear
  \/ Initialize
  \/ EditQuestion

Init == InitRecord /\ MetadataIdle /\ FormIdle /\ WorkflowIdle

Spec == Init /\ [][Next]_vars

-----------------------------------------------------------------------------
(* Record: what it reads from its questions                                *)

\* A question that is required or optional.
SettingQuestion(i, req) ==
  [id |-> i, name |-> QuestionName(i), answer |-> NoValue,
   suggestion |-> UNDEFINED, isRequired |-> req]

\* The lists of questions a record is built with: none, or up to
\* MaxQuestions of them, each required or optional.
QuestionLists ==
  UNION { { [i \in 1..n |-> SettingQuestion(i, req[i])] :
              req \in [1..n -> BOOLEAN] } : n \in 0..MaxQuestions }

\* The answers a question's getters accept. An answer without a value is
\* neither valid nor partially valid; every other choice is open. The two
\* methods of the record read different getters, so the choices for one are
\* enumerated with those for the other fixed.
QuestionRules ==
  { [isAnswered |-> an, hasValidValues |-> hv,
     isValid |-> {"a", "b"}, isPartiallyValid |-> {}] :
      an \in SUBSET {"a", "b"}, hv \in SUBSET {NoValue, "a", "b"} }
  \cup
  { [isAnswered |-> {"a", "b"}, hasValidValues |-> {NoValue, "a", "b"},
     isValid |-> va, isPartiallyValid |-> pv] :
      va \in SUBSET {"a", "b"}, pv \in SUBSET {"a", "b"} }

\* question.isRequired
isRequired(q) == q.isRequired

\* question.isAnswered
isAnswered(q) == q.answer \in rules.isAnswered

\* question.hasValidValues
hasValidValues(q) == q.answer \in rules.hasValidValues

\* question.answer.isValid
answerIsValid(q) == q.answer \in rules.isValid

\* question.answer.isPartiallyValid
answerIsPartiallyValid(q) == q.answer \in rules.isPartiallyValid

\* Array.prototype.filter with the test (input) => input.isRequired
filterRequired(items) ==
  SelectSeq([k \in 1..Len(items) |-> items[k]], isRequired)

\* Array.prototype.filter with the test (input) => !input.isRequired
filterNotRequired(items) ==
  LET isOptional(input) == ~isRequired(input)
  IN  SelectSeq([k \in 1..Len(items) |-> items[k]], isOptional)

\* The question's answer is valid or partially valid.
answered(question) ==
  answerIsValid(question) \/ answerIsPartiallyValid(question)

\* hasAnyQuestionAnswered asking every question.
hasEveryQuestionAnswered(r) ==
  \A k \in DOMAIN r.questions : answered(r.questions[k])

\* get hasAnyQuestionAnswered: questions.some(...)
hasAnyQuestionAnswered(r) ==
  \E k \in DOMAIN r.questions : answered(r.questions[k])

\* questionAreCompletedCorrectly() looking at the required questions only.
questionAreCompletedCorrectlyRequiredOnly(r) ==
  LET required == filterRequired(r.questions)
  IN  \A k \in DOMAIN required : isAnswered(required[k])

\* questionAreCompletedCorrectly(): filter(...).every(...) twice
questionAreCompletedCorrectly(r) ==
  LET required == filterRequired(r.questions)
      optional == filterNotRequired(r.questions)
      requiredQuestionsAreCompletedCorrectly ==
        \A k \in DOMAIN required : isAnswered(required[k])
      optionalQuestionsCompletedAreCorrectlyEntered ==
        \A k \in DOMAIN optional : hasValidValues(optional[k])
  IN  /\ requiredQuestionsAreCompletedCorrectly
      /\ optionalQuestionsCompletedAreCorrectlyEntered

\* The answers and suggestions the records under study are built with.
QuestionAnswerArgs ==
  { NULL,
    [kind |-> "answer", status |-> "draft", value |-> FirstAnswered,
     updatedAt |-> "t1"],
    [kind |-> "answer", status |-> "submitted", value |-> AllAnswered,
     updatedAt |-> "t2"] }

QuestionSuggestionArgs == { NULL, Array(<<Suggestion(1, "s1")>>) }

\* new Record(id, datasetId, qs, fields, a, s, page), nothing read yet
InitQuestions ==
  /\ \E qs \in QuestionLists, a \in QuestionAnswerArgs,
        s \in QuestionSuggestionArgs :
       LET r == construct(qs, a, s)
       IN  /\ questions = r.questions
           /\ answer = r.answer
           /\ suggestions = r.suggestions
           /\ updatedAt = r.updatedAt
           /\ original = r.original
           /\ lastOp = "construct"
           /\ lastArg = a
           /\ threw = FALSE
           /\ calls = CompletionCalls(newRecord(qs, a, s))
           /\ snap = UNDEFINED
  /\ rules \in QuestionRules
  /\ readOp = "none"
  /\ readResult = FALSE
  /\ MetadataIdle
  /\ FormIdle
  /\ WorkflowIdle

\* record.questionAreCompletedCorrectly()
ReadQuestionAreCompletedCorrectly ==
  /\ readOp' = "questionAreCompletedCorrectly"
  /\ readResult' = questionAreCompletedCorrectly(This)
  /\ UNCHANGED <<recordVars, rules, metadataVars, formVars, workflowVars>>

\* record.hasAnyQuestionAnswered
ReadHasAnyQuestionAnswered ==
  /\ readOp' = "hasAnyQuestionAnswered"
  /\ readResult' = hasAnyQuestionAnswered(This)
  /\ UNCHANGED <<recordVars, rules, metadataVars, formVars, workflowVars>>

\* The annotator changes the answer of one of the record's questions.
AnswerQuestion ==
  \E i \in DOMAIN questions, v \in AnswerValues :
    /\ v # questions[i].answer
    /\ questions' = [questions EXCEPT ![i].answer = v]
    /\ lastOp' = "edit"
    /\ lastArg' = UNDEFINED
    /\ threw' = FALSE
    /\ calls' = [j \in DOMAIN questions |-> <<>>]
    /\ readOp' = "none"
    /\ readResult' = FALSE
    /\ UNCHANGED <<answer, suggestions, updatedAt, original, snap, rules>>
    /\ UNCHANGED <<metadataVars, formVars, workflowVars>>

\* record.clear(), on a record of any number of questions
ClearQuestions ==
  LET r == clear(This)
  IN  /\ Becomes(r)
      /\ lastOp' = "clear"
      /\ lastArg' = UNDEFINED
      /\ threw' = FALSE
      /\ calls' = [i \in DOMAIN questions |->
                     clearCalls(questions[i])
                       \o completeQuestionCalls([This EXCEPT !.answer = NULL],
                                                questions[i])]
      /\ snap' = Rest(r)
      /\ readOp' = "none"
      /\ readResult' = FALSE
      /\ UNCHANGED <<rules, metadataVars, formVars, workflowVars>>

NextQuestions ==
  \/ ReadQuestionAreCompletedCorrectly
  \/ ReadHasAnyQuestionAnswered
  \/ AnswerQuestion
  \/ ClearQuestions

SpecQuestions == InitQuestions /\ [][NextQuestions]_vars

-----------------------------------------------------------------------------
(* Metadata                                                                *)

Num(n) == [kind |-> "number", n |-> n]

\* settings.type: the three known types and one that is none of them.
MetadataTypes == {"terms", "integer", "float", "date"}

\* settings.values: absent, null, empty, non-empty.
ValuesArgs == {UNDEFINED, NULL, Array(<<>>), Array(<<"x">>), Array(<<"x", "y">>)}

\* settings.min and settings.max: absent, null, a number.
BoundArgs == {UNDEFINED, NULL, Num(0), Num(5)}

\* interface MetadataSettings
MetadataSettings ==
  [type : MetadataTypes, values : ValuesArgs, min : BoundArgs, max : BoundArgs]

isTerms(m) == m.type = "terms"

isInteger(m) == m.type = "integer"

isFloat(m) == m.type = "float"

\* settings.values?.length > 0: undefined > 0 is false.
valuesLengthPositive(m) ==
  IF Nullish(m.values) THEN FALSE ELSE Len(m.values.items) > 0

\* get hasValues
hasValues(m) ==
  IF isTerms(m) THEN valuesLengthPositive(m)
  ELSE m.max # NULL /\ m.min # NULL

\* new Metadata(id, name, title, settings)
InitMetadata ==
  /\ settings \in MetadataSettings
  /\ hasValuesRead = FALSE
  /\ hasValuesResult = FALSE
  /\ RecordIdle
  /\ FormIdle
  /\ WorkflowIdle

\* metadata.hasValues is read.
ReadHasValues ==
  /\ hasValuesRead' = TRUE
  /\ hasValuesResult' = hasValues(settings)
  /\ UNCHANGED <<settings, recordVars, readVars, formVars, workflowVars>>

\* Another Metadata is built.
NewMetadata ==
  /\ settings' \in MetadataSettings
  /\ hasValuesRead' = FALSE
  /\ hasValuesResult' = FALSE
  /\ UNCHANGED <<recordVars, readVars, formVars, workflowVars>>

NextMetadata ==
  \/ ReadHasValues
  \/ NewMetadata

SpecMetadata == InitMetadata /\ [][NextMetadata]_vars

-----------------------------------------------------------------------------
(* SettingsFields                                                          *)

\* Number of fields of the dataset settings.
MaxFields == 2

FieldIds == 1..MaxFields

\* What the title input can hold.
Titles == {"", "Text", "Prompt"}

\* A field as the form receives it.
NewField(i, title, markdown) ==
  [id |-> i, title |-> title, settings |-> [use_markdown |-> markdown],
   original |-> [title |-> title, settings |-> [use_markdown |-> markdown]]]

\* field.isModified
fieldIsModified(f) ==
  \/ f.title # f.original.title
  \/ f.settings.use_markdown # f.original.settings.use_markdown

\* field.isFieldValid: validate().title reports nothing.
isFieldValid(f) == f.title # ""

\* Cancel button: :disabled="!field.isModified"
cancelDisabled(f) == ~fieldIsModified(f)

\* The Update button disabled like the Cancel button.
updateDisabledLikeCancel(f) == ~fieldIsModified(f)

\* Update button: :disabled="!field.isModified || !field.isFieldValid"
updateDisabled(f) == ~fieldIsModified(f) \/ ~isFieldValid(f)

\* restore(field)
restore(f) ==
  [f EXCEPT !.title = f.original.title,
            !.settings.use_markdown = f.original.settings.use_markdown]

\* update(field)
update(f) ==
  [f EXCEPT !.original = [title |-> f.title, settings |-> f.settings]]

\* The form is mounted with the fields of the dataset.
InitForm ==
  /\ fields \in [FieldIds -> {NewField(i, t, m) :
                     i \in FieldIds, t \in Titles \ {""}, m \in BOOLEAN}]
  /\ \A i \in FieldIds : fields[i].id = i
  /\ formOp = "mounted"
  /\ RecordIdle
  /\ MetadataIdle
  /\ WorkflowIdle

\* v-model="field.title"
EditTitle ==
  \E i \in FieldIds, t \in Titles :
    /\ t # fields[i].title
    /\ fields' = [fields EXCEPT ![i].title = t]
    /\ formOp' = "input"
    /\ UNCHANGED <<recordVars, readVars, metadataVars, workflowVars>>

\* v-model="field.settings.use_markdown"
ToggleMarkdown ==
  \E i \in FieldIds :
    /\ fields' = [fields EXCEPT ![i].settings.use_markdown = ~@]
    /\ formOp' = "switch"
    /\ UNCHANGED <<recordVars, readVars, metadataVars, workflowVars>>

\* A click on Cancel, which a disabled button does not deliver.
Restore ==
  \E i \in FieldIds :
    /\ ~cancelDisabled(fields[i])
    /\ fields' = [fields EXCEPT ![i] = restore(@)]
    /\ formOp' = "restore"
    /\ UNCHANGED <<recordVars, readVars, metadataVars, workflowVars>>

\* @submit.prevent="onSubmit(field)": the form is submitted through its
\* submit button, which a disabled button does not allow.
OnSubmit ==
  \E i \in FieldIds :
    /\ ~updateDisabled(fields[i])
    /\ fields' = [fields EXCEPT ![i] = update(@)]
    /\ formOp' = "submit"
    /\ UNCHANGED <<recordVars, readVars, metadataVars, workflowVars>>

NextForm ==
  \/ EditTitle
  \/ ToggleMarkdown
  \/ Restore
  \/ OnSubmit

SpecForm == InitForm /\ [][NextForm]_vars

-----------------------------------------------------------------------------
(* GitHub Actions workflows.  A string is the sequence of its pieces, so    *)
(* that concatenation is \o and the empty string is <<>>.                   *)

\* GITHUB_REF: a branch, a branch whose name holds "refs/tags/", a pull
\* request, two tags.
GithubRefs ==
  { <<"refs/", "heads/", "main">>,
    <<"refs/", "heads/", "refs/", "tags/", "fix">>,
    <<"refs/", "pull/", "12/", "merge">>,
    <<"refs/", "tags/", "v1.16.0">>,
    <<"refs/", "tags/", "v2.0.0rc1">> }

\* inputs.image-name
ImageNames == { <<"argilla/argilla-server">>, <<"argilla/argilla-quickstart">> }

\* What the action docker-image-tag-from-ref gives as docker-image-tag.
DockerImageTags == { <<"main">>, <<"pr-12">>, <<"v1.16.0">> }

\* What the action generate-credentials gives for a role.
CredentialValues == { <<"k1">>, <<"k2">> }

\* What deploy-cloudrun gives as url.
ServiceUrls == { <<"https://argilla-quickstart.a.run.app">> }

\* Whether string p occurs somewhere in string s.
OccursIn(s, p) ==
  \E k \in 1..(Len(s) - Len(p) + 1) : SubSeq(s, k, k + Len(p) - 1) = p

\* Whether string s starts with string p.
StartsWith(s, p) == Len(s) >= Len(p) /\ SubSeq(s, 1, Len(p)) = p

\* The pieces of s between the separators sep, in order.
RECURSIVE Split(_, _)
Split(s, sep) ==
  IF \A k \in DOMAIN s : s[k] # sep THEN << s >>
  ELSE LET k == CHOOSE j \in DOMAIN s :
                  s[j] = sep /\ \A i \in 1..(j - 1) : s[i] # sep
       IN  << SubSeq(s, 1, k - 1) >> \o Split(SubSeq(s, k + 1, Len(s)), sep)

Range(f) == {f[k] : k \in DOMAIN f}

\* ${{ outputs.name }}: the empty string when there is no such output.
Output(outputs, name) ==
  IF name \in DOMAIN outputs THEN outputs[name] ELSE <<>>

BuildSteps ==
  << "checkout", "download-python-package", "setup-qemu", "setup-buildx",
     "docker-image-tag-from-ref", "generate-docker-tags", "login-docker-hub",
     "google-auth", "login-artifact-registry", "build-and-push",
     "docker-hub-description" >>

DeploySteps ==
  << "checkout", "google-auth", "credentials", "deploy", "slack", "comment" >>

\* A step that runs whatever became of the earlier steps (always()).
stepRunsAlways(run, condition) == condition

\* A step runs when no earlier step of the job failed (the default status
\* check success()) and its if: expression holds.
stepRuns(run, condition) == "failure" \notin Range(run.outcome) /\ condition

\* The job goes on to its next step.
Advance(run, result) ==
  [run EXCEPT !.step = @ + 1, !.outcome = Append(@, result)]

\* The result of a job whose steps are over.
Conclusion(run) ==
  IF "failure" \in Range(run.outcome) THEN "failure" ELSE "success"

\* The step the job is at.
AtStep(run, steps, name) ==
  /\ run.status = "running"
  /\ run.step \in DOMAIN steps
  /\ steps[run.step] = name

\* The if: of a step of the build job.
buildCondition(name) ==
  CASE name = "download-python-package" -> build.download
    [] name = "docker-hub-description" -> build.release
    [] OTHER -> TRUE

\* generate-docker-tags without the registry tag of Google.
generateDockerTagsHubOnly(IMAGE_NAME, DOCKER_IMAGE_TAG, GITHUB_REF) ==
  LET DOCKER_HUB_TAGS == IMAGE_NAME \o <<":">> \o DOCKER_IMAGE_TAG
  IN  IF StartsWith(GITHUB_REF, <<"refs/", "tags/">>)
      THEN DOCKER_HUB_TAGS \o <<",">> \o IMAGE_NAME \o <<":", "latest">>
      ELSE DOCKER_HUB_TAGS

\* step generate-docker-tags: the value of its output tags.
generateDockerTags(IMAGE_NAME, DOCKER_IMAGE_TAG, GITHUB_REF) ==
  LET DOCKER_HUB_TAGS == IMAGE_NAME \o <<":">> \o DOCKER_IMAGE_TAG
      GCP_REGISTRY_TAG ==
        <<"europe-docker.pkg.dev/argilla-ci/">> \o IMAGE_NAME \o <<":">>
          \o DOCKER_IMAGE_TAG
      WITH_LATEST ==
        IF StartsWith(GITHUB_REF, <<"refs/", "tags/">>)
        THEN DOCKER_HUB_TAGS \o <<",">> \o IMAGE_NAME \o <<":", "latest">>
        ELSE DOCKER_HUB_TAGS
  IN  WITH_LATEST \o <<",">> \o GCP_REGISTRY_TAG

\* jobs.build.outputs
buildJobOutputs(run) == [version |-> run.dockerImageTag]

\* on.workflow_call.outputs
buildWorkflowOutputs(jobOutputs) ==
  [n \in {"version", "google-docker-image"} |-> Output(jobOutputs, n)]

\* The build workflow is called.
InitBuild ==
  \E ref \in GithubRefs, name \in ImageNames, dl \in BOOLEAN, rel \in BOOLEAN :
    build = [ref |-> ref, imageName |-> name, download |-> dl, release |-> rel,
             step |-> 1, outcome |-> <<>>, status |-> "running",
             dockerImageTag |-> <<>>, tags |-> <<>>, pushed |-> {},
             jobOutputs |-> [n \in {"version"} |-> <<>>],
             workflowOutputs |->
               [n \in {"version", "google-docker-image"} |-> <<>>]]

InitWorkflows ==
  /\ InitBuild
  /\ deploy = NoRun
  /\ RecordIdle
  /\ MetadataIdle
  /\ FormIdle

\* A step of the build job that leaves no output the model reads.
BuildPlainStep ==
  \E name \in Range(BuildSteps) \
       {"docker-image-tag-from-ref", "generate-docker-tags", "build-and-push"} :
    /\ AtStep(build, BuildSteps, name)
    /\ \E result \in {"success", "failure"} :
         build' = Advance(build,
                    IF stepRuns(build, buildCondition(name)) THEN result
                    ELSE "skipped")
    /\ UNCHANGED <<deploy, recordVars, readVars, metadataVars, formVars>>

\* step docker-image-tag-from-ref
GetDockerImageTag ==
  /\ AtStep(build, BuildSteps, "docker-image-tag-from-ref")
  /\ IF stepRuns(build, TRUE)
     THEN \/ \E tag \in DockerImageTags :
               build' = [Advance(build, "success") EXCEPT !.dockerImageTag = tag]
          \/ build' = Advance(build, "failure")
     ELSE build' = Advance(build, "skipped")
  /\ UNCHANGED <<deploy, recordVars, readVars, metadataVars, formVars>>

\* step generate-docker-tags
GenerateDockerTags ==
  /\ AtStep(build, BuildSteps, "generate-docker-tags")
  /\ IF stepRuns(build, TRUE)
     THEN build' =
            [Advance(build, "success") EXCEPT
               !.tags = generateDockerTags(build.imageName,
                                           build.dockerImageTag, build.ref)]
     ELSE build' = Advance(build, "skipped")
  /\ UNCHANGED <<deploy, recordVars, readVars, metadataVars, formVars>>

\* step Build and push: push: true pushes every tag of the list.
BuildAndPush ==
  /\ AtStep(build, BuildSteps, "build-and-push")
  /\ IF stepRuns(build, TRUE)
     THEN \/ build' = [Advance(build, "success") EXCEPT
                         !.pushed = Range(Split(build.tags, ","))]
          \/ build' = Advance(build, "failure")
     ELSE build' = Advance(build, "skipped")
  /\ UNCHANGED <<deploy, recordVars, readVars, metadataVars, formVars>>

\* The build job ends and the workflow gives its outputs.
BuildEnd ==
  /\ build.status = "running"
  /\ build.step = Len(BuildSteps) + 1
  /\ build' = [build EXCEPT
                 !.status = Conclusion(build),
                 !.jobOutputs = buildJobOutputs(build),
                 !.workflowOutputs = buildWorkflowOutputs(buildJobOutputs(build))]
  /\ UNCHANGED <<deploy, recordVars, readVars, metadataVars, formVars>>

EnvNames ==
  { "OWNER_PASSWORD", "OWNER_API_KEY", "ADMIN_PASSWORD", "ADMIN_API_KEY",
    "ANNOTATOR_PASSWORD", "ANNOTATOR_API_KEY", "ARGILLA_ENABLE_TELEMETRY" }

NoCredentials == [r \in {"owner", "admin", "annotator"} |-> <<>>]

NoService ==
  [service |-> <<>>, image |-> <<>>, env_vars |-> [n \in EnvNames |-> <<>>]]

NoPost ==
  [posted |-> FALSE, url |-> <<>>, owner |-> <<>>, admin |-> <<>>,
   annotator |-> <<>>]

NoComment == [posted |-> FALSE, message |-> <<>>]

\* deploy-cloudrun given the owner's credential as the admin's API key.
deployCloudRunOwnerKeyForAdmin(inputs, credentials) ==
  [service |-> <<"argilla-quickstart-">> \o inputs.imageVersion,
   image |-> <<"europe-docker.pkg.dev/argilla-ci/">> \o inputs.imageName
               \o <<":">> \o inputs.imageVersion,
   env_vars |->
     [n \in EnvNames |->
        CASE n = "OWNER_PASSWORD" -> Output(credentials, "owner")
          [] n = "OWNER_API_KEY" -> Output(credentials, "owner")
          [] n = "ADMIN_PASSWORD" -> Output(credentials, "admin")
          [] n = "ADMIN_API_KEY" -> Output(credentials, "owner")
          [] n = "ANNOTATOR_PASSWORD" -> Output(credentials, "annotator")
          [] n = "ANNOTATOR_API_KEY" -> Output(credentials, "annotator")
          [] n = "ARGILLA_ENABLE_TELEMETRY" -> <<"0">>]]

\* deploy-cloudrun given the image of Docker Hub.
deployCloudRunFromDockerHub(inputs, credentials) ==
  [service |-> <<"argilla-quickstart-">> \o inputs.imageVersion,
   image |-> inputs.imageName \o <<":">> \o inputs.imageVersion,
   env_vars |->
     [n \in EnvNames |->
        CASE n = "OWNER_PASSWORD" -> Output(credentials, "owner")
          [] n = "OWNER_API_KEY" -> Output(credentials, "owner")
          [] n = "ADMIN_PASSWORD" -> Output(credentials, "admin")
          [] n = "ADMIN_API_KEY" -> Output(credentials, "admin")
          [] n = "ANNOTATOR_PASSWORD" -> Output(credentials, "annotator")
          [] n = "ANNOTATOR_API_KEY" -> Output(credentials, "annotator")
          [] n = "ARGILLA_ENABLE_TELEMETRY" -> <<"0">>]]

\* step deploy: the with: of deploy-cloudrun.
deployCloudRun(inputs, credentials) ==
  [service |-> <<"argilla-quickstart-">> \o inputs.imageVersion,
   image |-> <<"europe-docker.pkg.dev/argilla-ci/">> \o inputs.imageName
               \o <<":">> \o inputs.imageVersion,
   env_vars |->
     [n \in EnvNames |->
        CASE n = "OWNER_PASSWORD" -> Output(credentials, "owner")
          [] n = "OWNER_API_KEY" -> Output(credentials, "owner")
          [] n = "ADMIN_PASSWORD" -> Output(credentials, "admin")
          [] n = "ADMIN_API_KEY" -> Output(credentials, "admin")
          [] n = "ANNOTATOR_PASSWORD" -> Output(credentials, "annotator")
          [] n = "ANNOTATOR_API_KEY" -> Output(credentials, "annotator")
          [] n = "ARGILLA_ENABLE_TELEMETRY" -> <<"0">>]]

\* step Post credentials in Slack: its with:
slackPost(url, credentials) ==
  [posted |-> TRUE, url |-> url,
   owner |-> Output(credentials, "owner"),
   admin |-> Output(credentials, "admin"),
   annotator |-> Output(credentials, "annotator")]

\* step Comment PR with Cloud Run URL: its with:
prComment(url) ==
  [posted |-> TRUE,
   message |->
     <<"The URL of the deployed environment for this PR is ">> \o url]

\* The deploy workflow is called once the build workflow has succeeded.
DeployStart ==
  /\ build.status = "success"
  /\ deploy.status = "idle"
  /\ \E name \in ImageNames,
        version \in DockerImageTags \cup {build.workflowOutputs["version"]} :
       deploy' = [imageName |-> name, imageVersion |-> version,
                  step |-> 1, outcome |-> <<>>, status |-> "running",
                  credentials |-> NoCredentials, service |-> NoService,
                  url |-> <<>>, slack |-> NoPost, comment |-> NoComment]
  /\ UNCHANGED <<build, recordVars, readVars, metadataVars, formVars>>

\* A step of the deploy job that leaves no output the model reads.
DeployPlainStep ==
  \E name \in {"checkout", "google-auth"} :
    /\ AtStep(deploy, DeploySteps, name)
    /\ \E result \in {"success", "failure"} :
         deploy' = Advance(deploy,
                     IF stepRuns(deploy, TRUE) THEN result ELSE "skipped")
    /\ UNCHANGED <<build, recordVars, readVars, metadataVars, formVars>>

\* step credentials
GenerateCredentials ==
  /\ AtStep(deploy, DeploySteps, "credentials")
  /\ IF stepRuns(deploy, TRUE)
     THEN \/ \E c \in [{"owner", "admin", "annotator"} -> CredentialValues] :
               deploy' = [Advance(deploy, "success") EXCEPT !.credentials = c]
          \/ deploy' = Advance(deploy, "failure")
     ELSE deploy' = Advance(deploy, "skipped")
  /\ UNCHANGED <<build, recordVars, readVars, metadataVars, formVars>>

\* step deploy
DeployInCloudRun ==
  /\ AtStep(deploy, DeploySteps, "deploy")
  /\ IF stepRuns(deploy, TRUE)
     THEN \/ \E url \in ServiceUrls :
               deploy' = [Advance(deploy, "success") EXCEPT
                            !.service = deployCloudRun(deploy, deploy.credentials),
                            !.url = url]
          \/ deploy' = Advance(deploy, "failure")
     ELSE deploy' = Advance(deploy, "skipped")
  /\ UNCHANGED <<build, recordVars, readVars, metadataVars, formVars>>

\* step Post credentials in Slack
PostCredentialsInSlack ==
  /\ AtStep(deploy, DeploySteps, "slack")
  /\ IF stepRuns(deploy, TRUE)
     THEN \/ deploy' = [Advance(deploy, "success") EXCEPT
                          !.slack = slackPost(deploy.url, deploy.credentials)]
          \/ deploy' = Advance(deploy, "failure")
     ELSE deploy' = Advance(deploy, "skipped")
  /\ UNCHANGED <<build, recordVars, readVars, metadataVars, formVars>>

\* step Comment PR with Cloud Run URL
CommentPR ==
  /\ AtStep(deploy, DeploySteps, "comment")
  /\ IF stepRuns(deploy, TRUE)
     THEN \/ deploy' = [Advance(deploy, "success") EXCEPT
                          !.comment = prComment(deploy.url)]
          \/ deploy' = Advance(deploy, "failure")
     ELSE deploy' = Advance(deploy, "skipped")
  /\ UNCHANGED <<build, recordVars, readVars, metadataVars, formVars>>

\* The deploy job ends.
DeployEnd ==
  /\ deploy.status = "running"
  /\ deploy.step = Len(DeploySteps) + 1
  /\ deploy' = [deploy EXCEPT !.status = Conclusion(deploy)]
  /\ UNCHANGED <<build, recordVars, readVars, metadataVars, formVars>>

NextWorkflows ==
  \/ BuildPlainStep
  \/ GetDockerImageTag
  \/ GenerateDockerTags
  \/ BuildAndPush
  \/ BuildEnd
  \/ DeployStart
  \/ DeployPlainStep
  \/ GenerateCredentials
  \/ DeployInCloudRun
  \/ PostCredentialsInSlack
  \/ CommentPR
  \/ DeployEnd

SpecWorkflows == InitWorkflows /\ [][NextWorkflows]_vars

-----------------------------------------------------------------------------
(* Properties of Record                                                    *)

\* The last operation was a submit or a discard that returned.
AnswerStored == lastOp \in {"submit", "discard"} /\ ~Nullish(lastArg)

\* The last operation ran initialize() to its end.
Initialized == AnswerStored \/ lastOp \in {"clear", "initialize"}

\* The questions whose state differs from the snapshot's.
ChangedQuestions ==
  IF Nullish(original) THEN {}
  ELSE {i \in QuestionIds : questions[i] # original.questions[i]}

C2_NotModifiedAfterConstruction ==
  lastOp = "construct" => ~isModified(This)

\* A record built with an answer and with suggestions.
C2_Witness ==
  /\ lastOp = "construct"
  /\ ~Nullish(answer)
  /\ ~Nullish(suggestions)
  /\ suggestions.items # <<>>
  /\ Nullish(original)

\* C3 as stated: in a state that directly follows construction, submit,
\* discard or clear, where isModified is false, changing the answer of one
\* question makes isModified true.
C3_ModifiedByEditAfterAnyOp ==
  [][ ( /\ lastOp \in {"construct", "submit", "discard", "clear"}
        /\ ~isModified(This)
        /\ lastOp' = "edit" )
      => isModified(This)' ]_vars

\* C3: in a state that directly follows a submit or a discard that returned,
\* a clear or an initialize, changing the answer of one question makes
\* isModified true; directly after construction it leaves isModified false.
C3_ModifiedByEditAfterInitialize ==
  [][ /\ (Initialized /\ lastOp' = "edit") => isModified(This)'
      /\ (lastOp = "construct" /\ lastOp' = "edit") => ~isModified(This)' ]_vars

\* One question edited since the snapshot was taken.
C3_Witness ==
  /\ lastOp = "edit"
  /\ isModified(This)
  /\ Cardinality(ChangedQuestions) = 1
  /\ answer = original.answer

\* C4: once initialize() has run, isModified is true exactly when the record's
\* state without the snapshot differs from its state at the end of the last
\* initialize().
C4_ModifiedIffDiffersFromSnapshot ==
  ~Nullish(snap) => (isModified(This) <=> Rest(This) # snap)

\* Every question edited since the snapshot was taken.
C4_Witness ==
  /\ ~Nullish(snap)
  /\ lastOp = "edit"
  /\ isModified(This)
  /\ ChangedQuestions = QuestionIds

\* C5: the status is pending whenever the answer is null or undefined.
C5_PendingWithoutAnswer ==
  Nullish(answer) => (status(This) = "pending" /\ isPending(This))

\* A cleared record, pending.
C5_Witness ==
  /\ lastOp = "clear"
  /\ answer = NULL
  /\ ~Nullish(snap)
  /\ status(This) = "pending"

\* C6: the status is one of pending, submitted, discarded and draft, and
\* exactly one of isPending, isSubmitted, isDiscarded, isDraft is true.
C6_ExactlyOneStatus ==
  /\ status(This) \in {"pending", "submitted", "discarded", "draft"}
  /\ Cardinality(
       {g \in {"isPending", "isSubmitted", "isDiscarded", "isDraft"} :
          CASE g = "isPending" -> isPending(This)
            [] g = "isSubmitted" -> isSubmitted(This)
            [] g = "isDiscarded" -> isDiscarded(This)
            [] g = "isDraft" -> isDraft(This)}) = 1

\* A submitted answer that has no status field.
C6_Witness ==
  /\ AnswerStored
  /\ lastArg.status = NoValue
  /\ isPending(This)
  /\ ~isDraft(This)

\* C7: submit(a) and discard(a) with an answer a leave answer = a,
\* updatedAt = a.updatedAt, status = a.status (pending without one), and a
\* snapshot of that state.
C7_AnswerStored ==
  AnswerStored =>
    /\ ~threw
    /\ answer = lastArg
    /\ updatedAt = lastArg.updatedAt
    /\ status(This) =
         (IF lastArg.status = NoValue THEN "pending" ELSE lastArg.status)
    /\ original = Rest(This)

\* A discard with a submitted answer and the later timestamp.
C7_Witness ==
  /\ lastOp = "discard"
  /\ ~Nullish(lastArg)
  /\ lastArg.status = "submitted"
  /\ updatedAt = "t2"
  /\ isSubmitted(This)

\* The last operation completed question i with the record's answer for it.
AnswerRehydrated(i) ==
  \E k \in DOMAIN calls[i] :
    /\ calls[i][k].method \in {"complete", "forceComplete"}
    /\ calls[i][k].value = answerForQuestion(This, questions[i])

\* The last operation gave question i the suggestion that matches it.
SuggestionRehydrated(i) ==
  \E k \in DOMAIN calls[i] :
    /\ calls[i][k].method = "suggests"
    /\ calls[i][k].suggestion = suggestionFor(This, questions[i])

\* The last operation made no suggests call on question i.
NotSuggested(i) ==
  \A k \in DOMAIN calls[i] : calls[i][k].method # "suggests"

\* The last operation ran completeQuestion.
Completed == lastOp = "construct" \/ Initialized

\* C8 as stated: construction and initialize() rehydrate every question with
\* its answer and with its suggestion, whatever the status.
C8_AnswerAndSuggestionAlways ==
  Completed =>
    \A i \in QuestionIds : AnswerRehydrated(i) /\ SuggestionRehydrated(i)

\* C8: construction and initialize() rehydrate every question with its
\* answer whatever the status, and with its suggestion when the record is
\* pending or draft; when it is submitted or discarded no suggests call is
\* made.
C8_AnswerAlwaysSuggestionWhenOpen ==
  Completed =>
    \A i \in QuestionIds :
      /\ AnswerRehydrated(i)
      /\ (isPending(This) \/ isDraft(This)) => SuggestionRehydrated(i)
      /\ (isSubmitted(This) \/ isDiscarded(This)) => NotSuggested(i)

\* A submit of a submitted answer: the first question is force-completed with
\* its answer and is not given the suggestion that matches it.
C8_Witness ==
  /\ lastOp = "submit"
  /\ isSubmitted(This)
  /\ calls[1] = << Call("forceComplete", "a", UNDEFINED) >>
  /\ ~Nullish(suggestionFor(This, questions[1]))

\* C15: the snapshot, as the record reads it, is always the state at the end
\* of the last initialize(): no snapshot before the first one, and afterwards
\* no change to the answer, to updatedAt or to a question reaches it.
C15_SnapshotChangesOnlyInInitialize ==
  /\ Nullish(snap) => Nullish(original)
  /\ ~Nullish(snap) => Resolve(original, This) = snap

\* A question edited since the snapshot was taken, the snapshot keeping the
\* answer that question had.
C15_Witness ==
  /\ lastOp = "edit"
  /\ ~Nullish(snap)
  /\ questions[1].answer # snap.questions[1].answer
  /\ original.questions[1].answer = snap.questions[1].answer

\* C16: after initialize(), edits that end in a state equal by value to the
\* snapshot leave isModified false.
C16_NotModifiedWhenEditedBack ==
  (lastOp = "edit" /\ ~Nullish(snap) /\ Rest(This) = snap)
    => ~isModified(This)

\* An edit that set a question back to the answer it had at the snapshot.
C16_Witness ==
  /\ lastOp = "edit"
  /\ ~Nullish(original)
  /\ ChangedQuestions = {}
  /\ answer = original.answer
  /\ updatedAt = original.updatedAt

\* The record's answer value for question i.
AnswerValue(i) ==
  IF Nullish(answer) THEN NoValue ELSE answer.value[QuestionName(i)]

\* The positions of the suggestions made for question i.
Matches(i) ==
  IF Nullish(suggestions) THEN {}
  ELSE {k \in DOMAIN suggestions.items :
          suggestions.items[k].questionId = questions[i].id}

\* The first suggestion made for question i, undefined without one.
FirstMatch(i) ==
  IF Matches(i) = {} THEN UNDEFINED
  ELSE suggestions.items[CHOOSE k \in Matches(i) :
                           \A m \in Matches(i) : k <= m]

\* C17: clear() calls clearAnswer() on every question, then completes it
\* with undefined and gives it its first matching suggestion; it leaves the
\* answer null, the record pending, and a snapshot of that state.
C17_ClearResetsToPending ==
  lastOp = "clear" =>
    /\ ~threw
    /\ \A i \in QuestionIds :
         calls[i] = << Call("clearAnswer", NoValue, UNDEFINED),
                       Call("complete", NoValue, UNDEFINED),
                       Call("suggests", NoValue, FirstMatch(i)) >>
    /\ answer = NULL
    /\ isPending(This)
    /\ ~Nullish(original)
    /\ original = Rest(This)
    /\ original.answer = NULL

\* A clear of a record that had a snapshot of a submitted answer: the first
\* question is given the suggestion made for it.
C17_Witness ==
  /\ lastOp = "clear"
  /\ updatedAt = "t2"
  /\ answer = NULL
  /\ calls[1][3].suggestion = Suggestion(1, "s1")
  /\ original.answer = NULL

\* The calls completeQuestion made on question i in the last operation.
CompletionPart(i) ==
  IF lastOp = "clear" THEN Tail(calls[i]) ELSE calls[i]

\* C18: completeQuestion calls, on every question, complete(answer value)
\* and then suggests(first suggestion for the question, or undefined) when
\* the record is pending or draft, and only forceComplete(answer value) when
\* it is submitted or discarded.
C18_CompletesByStatus ==
  Completed =>
    \A i \in QuestionIds :
      /\ (isPending(This) \/ isDraft(This)) =>
           CompletionPart(i) =
             << Call("complete", AnswerValue(i), UNDEFINED),
                Call("suggests", NoValue, FirstMatch(i)) >>
      /\ (isSubmitted(This) \/ isDiscarded(This)) =>
           CompletionPart(i) =
             << Call("forceComplete", AnswerValue(i), UNDEFINED) >>

\* A draft with two suggestions for the first question: the first of them is
\* the one suggested.
C18_Witness ==
  /\ Completed
  /\ isDraft(This)
  /\ Cardinality(Matches(1)) = 2
  /\ calls[1] = << Call("complete", "a", UNDEFINED),
                   Call("suggests", NoValue, Suggestion(1, "s1")) >>

\* updatedAt is the answer's, and undefined without an answer.
UpdatedAtMirrorsAnswer ==
  IF Nullish(answer) THEN updatedAt = NoValue
  ELSE updatedAt = answer.updatedAt

\* C23: after the constructor, after a submit or a discard that returned and
\* after clear(), updatedAt equals answer.updatedAt when there is an answer
\* and is undefined when the answer is null.
C23_UpdatedAtMirrorsAnswer ==
  (lastOp \in {"construct", "submit", "discard", "clear"} /\ ~threw)
    => UpdatedAtMirrorsAnswer

\* C24: submit(answer) and discard(answer) with null or undefined end in an
\* error and leave answer, updatedAt, status and the snapshot as they were.
C24_FailedCallLeavesRecordUnchanged ==
  [][ (lastOp' \in {"submit", "discard"} /\ Nullish(lastArg')) =>
        /\ threw'
        /\ answer' = answer
        /\ updatedAt' = updatedAt
        /\ status(This)' = status(This)
        /\ original' = original ]_vars

\* C25: while initialize() has never run to its end the record has no
\* snapshot and isModified is false, whatever has been edited.
C25_NoSnapshotBeforeInitialize ==
  Nullish(snap) => (Nullish(original) /\ ~isModified(This))

\* A record never initialized, with a question edited away from the answer
\* the record holds for it.
C25_Witness ==
  /\ lastOp = "edit"
  /\ Nullish(snap)
  /\ Nullish(original)
  /\ \E i \in QuestionIds : questions[i].answer # AnswerValue(i)

\* The status an answer gives the record.
StatusOf(a) == IF a.status = NoValue THEN DEFAULT_STATUS ELSE a.status

\* C26: in every state and for every answer argument submit(a) and
\* discard(a) end in the same state, and when they return the status is the
\* one of a.
C26_SubmitEqualsDiscard ==
  \A a \in AnswerArgs :
    /\ submit(This, a) = discard(This, a)
    /\ ~Nullish(a) =>
         /\ status(submit(This, a)) = StatusOf(a)
         /\ status(discard(This, a)) = StatusOf(a)

\* A submit of a discarded answer: the record is discarded.
C26_Witness ==
  /\ lastOp = "submit"
  /\ ~threw
  /\ lastArg.status = "discarded"
  /\ isDiscarded(This)
  /\ original = Rest(This)
  /\ discard(This, lastArg) = This

\* Question i is as questionAreCompletedCorrectly() wants it: answered when
\* it is required, with valid values when it is not.
CompletedCorrectly(i) ==
  IF questions[i].isRequired THEN isAnswered(questions[i])
  ELSE hasValidValues(questions[i])

\* C21: questionAreCompletedCorrectly() returns true if and only if every
\* required question is answered and every other question has valid values;
\* it returns true for a record with no questions, and false when a required
\* question is not answered.
C21_CompletedCorrectlyIff ==
  readOp = "questionAreCompletedCorrectly" =>
    /\ readResult <=> \A i \in DOMAIN questions : CompletedCorrectly(i)
    /\ DOMAIN questions = {} => readResult
    /\ (\E i \in DOMAIN questions :
          questions[i].isRequired /\ ~isAnswered(questions[i]))
         => ~readResult

\* Two questions, the only one out of order a required question that is not
\* answered: the method returned false.
C21_Witness ==
  /\ readOp = "questionAreCompletedCorrectly"
  /\ ~readResult
  /\ Len(questions) = 2
  /\ \E i \in DOMAIN questions :
       /\ questions[i].isRequired
       /\ ~isAnswered(questions[i])
       /\ \A j \in (DOMAIN questions) \ {i} :
            ~questions[j].isRequired /\ hasValidValues(questions[j])

\* Question i has an answer that is valid or partially valid.
ValidOrPartial(i) ==
  \/ questions[i].answer \in rules.isValid
  \/ questions[i].answer \in rules.isPartiallyValid

-----------------------------------------------------------------------------
(* Properties of Metadata                                                  *)

\* A bound that is present and not null.
BoundPresent(b) == b # UNDEFINED /\ b # NULL

\* C9: hasValues is true if and only if the type is terms and values is
\* non-empty, or the type is integer or float and min and max are both
\* present and not null.
C9_HasValuesIff ==
  hasValuesRead =>
    ( hasValuesResult <=>
        \/ (settings.type = "terms" /\ valuesLengthPositive(settings))
        \/ /\ settings.type \in {"integer", "float"}
           /\ BoundPresent(settings.min)
           /\ BoundPresent(settings.max) )

-----------------------------------------------------------------------------
(* Properties of SettingsFields                                            *)

\* C10: for every field the Update button is enabled if and only if the field
\* is modified and valid.
C10_UpdateEnabledIffModifiedAndValid ==
  \A i \in DOMAIN fields :
    ~updateDisabled(fields[i])
      <=> (fieldIsModified(fields[i]) /\ isFieldValid(fields[i]))

\* One field modified and valid, its button enabled; another modified and
\* not valid, its button disabled while Cancel is enabled.
C10_Witness ==
  \E i, j \in DOMAIN fields :
    /\ fieldIsModified(fields[i]) /\ isFieldValid(fields[i])
    /\ ~updateDisabled(fields[i])
    /\ fieldIsModified(fields[j]) /\ ~isFieldValid(fields[j])
    /\ updateDisabled(fields[j]) /\ ~cancelDisabled(fields[j])

-----------------------------------------------------------------------------
(* Properties of the workflows                                             *)

\* Step name of the job has ended with the given result.
StepEnded(run, steps, name, result) ==
  \E k \in DOMAIN run.outcome : steps[k] = name /\ run.outcome[k] = result

\* The tags the build is to give the image.
HubTag == build.imageName \o <<":">> \o build.dockerImageTag
HubLatestTag == build.imageName \o <<":", "latest">>
RegistryTag ==
  <<"europe-docker.pkg.dev/argilla-ci/">> \o build.imageName \o <<":">>
    \o build.dockerImageTag

\* The list of tags step generate-docker-tags has produced.
GeneratedTags == Range(Split(build.tags, ","))

TagsGenerated ==
  StepEnded(build, BuildSteps, "generate-docker-tags", "success")

Pushed == StepEnded(build, BuildSteps, "build-and-push", "success")

\* C11: the tag list of step generate-docker-tags holds the Docker Hub tag
\* IMAGE_NAME:TAG and the registry tag
\* europe-docker.pkg.dev/argilla-ci/IMAGE_NAME:TAG, and Build and push pushes
\* both.
C11_BothRegistriesTagged ==
  /\ TagsGenerated => {HubTag, RegistryTag} \subseteq GeneratedTags
  /\ Pushed => {HubTag, RegistryTag} \subseteq build.pushed

\* A release tag built and pushed, three tags in all.
C11_Witness ==
  /\ Pushed
  /\ build.ref = <<"refs/", "tags/", "v1.16.0">>
  /\ Cardinality(build.pushed) = 3
  /\ RegistryTag \in build.pushed

\* C12: after a successful run of the build workflow its output
\* google-docker-image is the registry tag the run pushed, and is not empty.
C12_GoogleDockerImageOutput ==
  build.status = "success" =>
    /\ build.workflowOutputs["google-docker-image"] # <<>>
    /\ build.workflowOutputs["google-docker-image"] = RegistryTag
    /\ build.workflowOutputs["google-docker-image"] \in build.pushed

Deployed == StepEnded(deploy, DeploySteps, "deploy", "success")

\* C13: for each role the password and the API key given to the Cloud Run
\* service are the credential step credentials generated for it, and the
\* credentials posted to Slack are the same.
C13_GeneratedCredentialsInjected ==
  /\ Deployed =>
       /\ \A r \in {"owner", "admin", "annotator"} :
            deploy.credentials[r] \in CredentialValues
       /\ deploy.service.env_vars["OWNER_PASSWORD"] = deploy.credentials["owner"]
       /\ deploy.service.env_vars["OWNER_API_KEY"] = deploy.credentials["owner"]
       /\ deploy.service.env_vars["ADMIN_PASSWORD"] = deploy.credentials["admin"]
       /\ deploy.service.env_vars["ADMIN_API_KEY"] = deploy.credentials["admin"]
       /\ deploy.service.env_vars["ANNOTATOR_PASSWORD"]
            = deploy.credentials["annotator"]
       /\ deploy.service.env_vars["ANNOTATOR_API_KEY"]
            = deploy.credentials["annotator"]
  /\ (deploy.status # "idle" /\ deploy.slack.posted) =>
       /\ deploy.slack.owner = deploy.service.env_vars["OWNER_PASSWORD"]
       /\ deploy.slack.admin = deploy.service.env_vars["ADMIN_PASSWORD"]
       /\ deploy.slack.annotator = deploy.service.env_vars["ANNOTATOR_PASSWORD"]

\* Credentials posted to Slack, the owner's and the admin's different.
C13_Witness ==
  /\ deploy.status # "idle"
  /\ deploy.slack.posted
  /\ deploy.slack.owner # deploy.slack.admin
  /\ deploy.slack.admin = deploy.service.env_vars["ADMIN_API_KEY"]

\* C14: called with the image-name given to the build workflow and with
\* image-version equal to its output version, the deploy workflow deploys the
\* registry tag the build workflow pushed.
C14_DeploysThePushedImage ==
  ( /\ Deployed
    /\ deploy.imageName = build.imageName
    /\ deploy.imageVersion = build.workflowOutputs["version"] )
  => /\ deploy.service.image = RegistryTag
     /\ deploy.service.image \in build.pushed

\* The image built for a pull request, deployed.
C14_Witness ==
  /\ Deployed
  /\ build.ref = <<"refs/", "pull/", "12/", "merge">>
  /\ deploy.imageName = build.imageName
  /\ deploy.imageVersion = build.workflowOutputs["version"]
  /\ deploy.service.image \in build.pushed

\* C19: in the deploy job a step runs only when every step before it has
\* succeeded: the deployment after the authentication and the generation of
\* the credentials, the Slack post and the comment after the deployment has
\* given its URL; when the deployment fails nothing is posted.
C19_DeployStepsInOrder ==
  deploy.status # "idle" =>
    /\ \A k \in DOMAIN deploy.outcome :
         deploy.outcome[k] \in {"success", "failure"} =>
           \A j \in 1..(k - 1) : deploy.outcome[j] = "success"
    /\ Deployed =>
         /\ StepEnded(deploy, DeploySteps, "google-auth", "success")
         /\ StepEnded(deploy, DeploySteps, "credentials", "success")
    /\ (deploy.slack.posted \/ deploy.comment.posted) =>
         /\ Deployed
         /\ deploy.url # <<>>
         /\ deploy.slack.url = deploy.url
    /\ deploy.comment.posted =>
         deploy.comment.message =
           <<"The URL of the deployed environment for this PR is ">>
             \o deploy.url
    /\ StepEnded(deploy, DeploySteps, "deploy", "failure") =>
         ~deploy.slack.posted /\ ~deploy.comment.posted

\* A deployment that failed: the job has ended, nothing was posted.
C19_Witness ==
  /\ deploy.status = "failure"
  /\ StepEnded(deploy, DeploySteps, "deploy", "failure")
  /\ StepEnded(deploy, DeploySteps, "slack", "skipped")
  /\ StepEnded(deploy, DeploySteps, "comment", "skipped")
  /\ ~deploy.slack.posted

\* C20: step generate-docker-tags adds the Docker Hub tag IMAGE_NAME:latest
\* if and only if GITHUB_REF starts with refs/tags/, and gives the registry of
\* Google no latest tag.
C20_LatestOnlyForTags ==
  TagsGenerated =>
    /\ HubLatestTag \in GeneratedTags
         <=> (build.ref[1] = "refs/" /\ build.ref[2] = "tags/")
    /\ \A t \in GeneratedTags :
         t[1] = "europe-docker.pkg.dev/argilla-ci/" => t[Len(t)] # "latest"

\* A branch whose name holds refs/tags/: no latest tag.
C20_Witness ==
  /\ TagsGenerated
  /\ build.ref = <<"refs/", "heads/", "refs/", "tags/", "fix">>
  /\ HubLatestTag \notin GeneratedTags
  /\ Cardinality(GeneratedTags) = 2

====
